---- MODULE Spec2Model ----
(***************************************************************************)
(* Shamir's Secret Sharing as implemented by the sharks crate.             *)
(*                                                                         *)
(* The repository holds two revisions of the mathematics:                  *)
(*   - the GF(2^8) revision driven by src/lib.rs (Sharks, dealer_rng,      *)
(*     recover) and src/share.rs (Share and its byte conversions); its     *)
(*     field engine (mod field) and its math (random_polynomial,           *)
(*     get_evaluator over polynomials, interpolate) are called by lib.rs   *)
(*     but their files are not part of the sources, so they are modelled   *)
(*     from the specification's sections 3 and 4;                          *)
(*   - the prime-modulus revision of src/math.rs (div_diff_mod,            *)
(*     lagrange_root, compute_coeffs, get_evaluator).                      *)
(***************************************************************************)
EXTENDS Integers, Sequences, FiniteSets, TLC

VARIABLES
    fa, fb, fout,          \* field engine: the two operands and the results of the operations
    constructed,           \* whether a Sharks value has been constructed
    threshold,             \* Sharks.0, the u8 of the tuple struct
    secret,                \* the secret handed to dealer_rng
    polys,                 \* the polynomials dealer_rng built, one per secret byte
    dealing,               \* whether a dealer iterator exists
    evalx,                 \* the evaluator's position: the next x it evaluates, 256 when exhausted
    last,                  \* what the last call of the iterator's next() returned
    nexts,                 \* how many times next() was called on this dealer
    shares,                \* the Vec<Share> the caller collected from the dealer
    input,                 \* the collection last handed to recover
    result,                \* what recover returned (or that it panicked)
    wire,                  \* a byte sequence on the wire
    share,                 \* a Share value held by the wire adapter
    decoded,               \* the outcome of the last conversion Share::from(&[u8])
    encoded,               \* the outcome of the last conversion Vec<u8>::from(Share)
    build,                 \* which revision of math.rs the state belongs to
    pmod, pk, ps, pcoeffs, \* prime-modulus revision: modulus, threshold, secret, coefficients
    px,                    \* prime-modulus revision: the evaluator's position in 1..p
    points,                \* prime-modulus revision: the HashMap<u128, u128> of collected points
    root                   \* prime-modulus revision: what lagrange_root returned, and of which points

vars == <<fa, fb, fout, constructed, threshold, secret, polys, dealing, evalx, last, nexts, shares,
          input, result, wire, share, decoded, encoded, build, pmod, pk, ps, pcoeffs,
          px, points, root>>

fieldVars == <<fa, fb, fout>>
sharksVars == <<constructed, threshold, secret, polys, dealing, evalx, last, nexts, shares, input, result>>
wireVars == <<wire, share, decoded, encoded>>
primeVars == <<pmod, pk, ps, pcoeffs, px, points, root>>

(***************************************************************************)
(* Bounds of the model.                                                    *)
(***************************************************************************)
MaxThreshold == 3      \* thresholds 0..MaxThreshold are constructed
MaxSecretLen == 2      \* secrets of 0..MaxSecretLen bytes
MaxTake == 3           \* the caller collects at most this many shares
MaxInput == 3          \* the fuzz target hands recover at most this many shares
MaxExtraNexts == 2     \* calls of next() made after the dealer is exhausted
MaxWireLen == 3        \* byte sequences of 0..MaxWireLen bytes on the wire
NumSeeds == 3          \* seeds of the caller-supplied randomness source

Bytes == 0..255
NoValue == [tag |-> "None"]

(***************************************************************************)
(* Sequence helpers.                                                       *)
(***************************************************************************)
RECURSIVE SeqsUpTo(_, _)
SeqsUpTo(S, n) ==
    IF n = 0 THEN {<<>>}
    ELSE LET shorter == SeqsUpTo(S, n - 1)
         IN  shorter \cup {Append(q, e) : q \in {t \in shorter : Len(t) = n - 1}, e \in S}

Range(q) == {q[i] : i \in DOMAIN q}

(***************************************************************************)
(* Field Arithmetic Engine, GF(2^8) modulo x^8+x^4+x^3+x+1 (spec 3, 4.1).  *)
(* A field element is an integer in 0..255.                                *)
(***************************************************************************)
RECURSIVE Xor(_, _)
Xor(a, b) ==
    IF a = 0 THEN b
    ELSE IF b = 0 THEN a
    ELSE 2 * Xor(a \div 2, b \div 2) + ((a + b) % 2)

\* multiplication by the polynomial x, reduced by x^8+x^4+x^3+x+1 (0x11b)
XTime(v) == IF v >= 128 THEN Xor((2 * v) % 256, 27) ELSE 2 * v

\* multiplication by the generator 3 = x + 1
TimesGenerator(v) == Xor(XTime(v), v)

\* carry-less multiplication reduced by x^8+x^4+x^3+x+1, by shift and add
RECURSIVE PolyMul(_, _)
PolyMul(a, b) ==
    IF b = 0 THEN 0
    ELSE Xor(IF b % 2 = 1 THEN a ELSE 0, PolyMul(XTime(a), b \div 2))

\* the generator 3 raised to the power i
RECURSIVE GeneratorPower(_)
GeneratorPower(i) ==
    IF i = 0 THEN 1
    ELSE IF i % 2 = 0 THEN LET h == GeneratorPower(i \div 2) IN PolyMul(h, h)
    ELSE TimesGenerator(GeneratorPower(i - 1))

\* EXP[i] = 3^i for i in 0..254; the cycle length is 255
EXP == [i \in 0..254 |-> GeneratorPower(i)]

\* LOG[v] = the discrete logarithm of the nonzero v, base the generator
LOG == [v \in 1..255 |-> CHOOSE i \in 0..254 : EXP[i] = v]

DivisionByZero == -1

\* the bitwise XOR of two bytes, tabulated
XorTable == [a \in Bytes |-> [b \in Bytes |-> Xor(a, b)]]

add(a, b) == XorTable[a][b]

sub(a, b) == XorTable[a][b]

\* a product that reads the exponent table one entry too far
mul_off_by_one(a, b) ==
    IF a = 0 \/ b = 0 THEN 0
    ELSE EXP[(LOG[a] + LOG[b] + 1) % 255]

mul(a, b) ==
    IF a = 0 \/ b = 0 THEN 0
    ELSE EXP[(LOG[a] + LOG[b]) % 255]

div(a, b) ==
    IF b = 0 THEN DivisionByZero
    ELSE IF a = 0 THEN 0
    ELSE EXP[(LOG[a] - LOG[b] + 255) % 255]

(***************************************************************************)
(* Share (src/share.rs) and its byte conversions.                          *)
(***************************************************************************)
\* struct Share { x: GF256, y: Vec<GF256> }
Share(sx, sy) == [x |-> sx, y |-> sy]

\* an encoder that appends x after the y bytes
ShareToBytes_y_first(sh) == sh.y \o <<sh.x>>

\* impl From<Share> for Vec<u8>: push x, then append the y bytes
ShareToBytes(sh) == <<sh.x>> \o sh.y

\* impl From<&[u8]> for Share: s[0] and s[1..] index the slice, which panics on an
\* empty slice (index out of bounds); the conversion is From, so it has no error value
ShareFromBytes(bs) ==
    IF Len(bs) = 0 THEN [tag |-> "Panic", why |-> "index out of bounds: s[0]"]
    ELSE [tag |-> "Share", share |-> Share(bs[1], SubSeq(bs, 2, Len(bs)))]

(***************************************************************************)
(* Polynomial generator and share evaluator of the GF(2^8) revision        *)
(* (spec 3, 4.2; called from src/lib.rs lines 98 and 101).                 *)
(***************************************************************************)
\* The caller-supplied randomness source: the n-th value a generator seeded with `seed`
\* samples from the nonzero field values 1..255.
RngSample(seed, n) == EXP[(97 * seed + 31 * n + seed * n) % 255]

\* K coefficients, highest degree first: K-1 sampled from 1..255 (the draws numbered
\* from `first`), then the secret byte
random_polynomial(byte, kk, seed, first) ==
    [j \in 1..(IF kk >= 1 THEN kk - 1 ELSE 0) |-> RngSample(seed, first + j)] \o <<byte>>

\* Horner evaluation in the field: (((c0*x + c1)*x + c2) ... + c_{K-1})
\* (the fold over the coefficients lo..hi, in order, is split in halves to keep the
\* recursion shallow for 255 coefficients; the first half's value is computed before
\* the second half starts, as in a loop)
RECURSIVE HornerFrom(_, _, _, _, _)
HornerFrom(poly, at, lo, hi, acc) ==
    IF lo > hi THEN acc
    ELSE IF lo = hi THEN add(mul(acc, at), poly[lo])
    ELSE LET mid == (lo + hi) \div 2
             first == HornerFrom(poly, at, lo, mid, acc)
         IN  IF first \in Bytes THEN HornerFrom(poly, at, mid + 1, hi, first) ELSE first

Horner(poly, at) == HornerFrom(poly, at, 1, Len(poly), 0)

\* the share the evaluator produces at `at`: one y per polynomial
evaluate(pols, at) == Share(at, [i \in 1..Len(pols) |-> Horner(pols[i], at)])

\* the evaluator's sequence is x = 1, 2, ..., 255
FirstX == 1
LastX == 255
Exhausted == LastX + 1

\* what next() yields at position `at`: the share there, or None once exhausted
EvaluatorItem(pols, at) ==
    IF at <= LastX
    THEN [tag |-> "Some", share |-> evaluate(pols, at)]
    ELSE NoValue

\* the position after a call of next(): x ascends by one; an exhausted evaluator stays so
EvaluatorAdvance(at) == IF at <= LastX THEN at + 1 ELSE at

(***************************************************************************)
(* Recoverer (src/lib.rs recover; interpolation from spec 4.3).            *)
(***************************************************************************)
\* basis_i = product over the other shares j of x_j / (x_j - x_i); a share whose x
\* equals x_i is not another point of the polynomial and is left out
BasisFactor(shs, i, j, acc) ==
    IF shs[j].x = shs[i].x THEN acc
    ELSE LET q == div(shs[j].x, sub(shs[j].x, shs[i].x))
         IN  IF q = DivisionByZero \/ acc = DivisionByZero
             THEN DivisionByZero
             ELSE mul(acc, q)

\* (the product over the shares lo..hi, in order, split in halves)
RECURSIVE BasisFrom(_, _, _, _, _)
BasisFrom(shs, i, lo, hi, acc) ==
    IF lo > hi THEN acc
    ELSE IF lo = hi THEN BasisFactor(shs, i, lo, acc)
    ELSE LET mid == (lo + hi) \div 2
             first == BasisFrom(shs, i, lo, mid, acc)
         IN  IF first = DivisionByZero THEN DivisionByZero
             ELSE BasisFrom(shs, i, mid + 1, hi, first)

Basis(shs, i) == BasisFrom(shs, i, 1, Len(shs), 1)

\* the basis of every share lo..hi, in order
RECURSIVE BasisOfEach(_, _, _)
BasisOfEach(shs, lo, hi) ==
    IF lo > hi THEN <<>>
    ELSE IF lo = hi THEN <<Basis(shs, lo)>>
    ELSE LET mid == (lo + hi) \div 2
         IN  BasisOfEach(shs, lo, mid) \o BasisOfEach(shs, mid + 1, hi)

\* recovered byte of chunk c = sum over the shares i of basis_i * y_i[c]
\* (the sum over the shares lo..hi, in order, split in halves)
RECURSIVE ChunkFrom(_, _, _, _, _, _)
ChunkFrom(shs, basis, c, lo, hi, acc) ==
    IF lo > hi THEN acc
    ELSE IF lo = hi THEN add(acc, mul(basis[lo], shs[lo].y[c]))
    ELSE LET mid == (lo + hi) \div 2
             first == ChunkFrom(shs, basis, c, lo, mid, acc)
         IN  IF first \in Bytes THEN ChunkFrom(shs, basis, c, mid + 1, hi, first) ELSE first

\* interpolate: n_chunks = len(y) of a share; one recovered byte per chunk, in chunk
\* order. It returns a byte sequence and has no error value: it does not return when
\* there is no share to read n_chunks from, when the shares disagree on len(y)
\* (malformed input), or when a basis divides by zero.
interpolate(shs) ==
    IF Len(shs) = 0
    THEN [tag |-> "Abort", why |-> "no share to read n_chunks from"]
    ELSE IF \E i \in 1..Len(shs) : Len(shs[i].y) # Len(shs[1].y)
    THEN [tag |-> "Abort", why |-> "shares disagree on len(y)"]
    ELSE LET basis == BasisOfEach(shs, 1, Len(shs))
         IN  IF \E i \in 1..Len(shs) : basis[i] = DivisionByZero
             THEN [tag |-> "Abort", why |-> "division by zero"]
             ELSE [tag |-> "Returned",
                   bytes |-> [c \in 1..Len(shs[1].y) |->
                                 ChunkFrom(shs, basis, c, 1, Len(shs), 0)]]

\* keys: the HashSet<u8> of the x-coordinates (lib.rs lines 146-157)
Keys(shs) == {shs[i].x : i \in 1..Len(shs)}

NotEnoughShares == [tag |-> "Err", msg |-> "Not enough shares to recover original secret"]

\* a recover whose comparison is <= : it refuses exactly K distinct shares
recover_inclusive(t, shs) ==
    IF Cardinality(Keys(shs)) <= t
    THEN NotEnoughShares
    ELSE LET bytes == interpolate(shs)
         IN  IF bytes.tag = "Returned"
             THEN [tag |-> "Ok", secret |-> bytes.bytes]
             ELSE bytes

\* a recover that counts the shares handed in instead of their distinct x
recover_counting_all(t, shs) ==
    IF Len(shs) < t
    THEN NotEnoughShares
    ELSE LET bytes == interpolate(shs)
         IN  IF bytes.tag = "Returned"
             THEN [tag |-> "Ok", secret |-> bytes.bytes]
             ELSE bytes

\* Sharks::recover (lib.rs lines 141-164): the only error value is built at line 160;
\* otherwise the result is Ok(interpolate(..)), and there is none when interpolate does
\* not return
recover(t, shs) ==
    IF Cardinality(Keys(shs)) < t
    THEN NotEnoughShares
    ELSE LET bytes == interpolate(shs)
         IN  IF bytes.tag = "Returned"
             THEN [tag |-> "Ok", secret |-> bytes.bytes]
             ELSE bytes

(***************************************************************************)
(* The prime-modulus revision (src/math.rs, src/mersenne.rs).              *)
(***************************************************************************)
\* mersenne.rs: the exponents of the Mersenne primes used as field modulo
EXPONENTS == <<2, 3, 5, 7, 13, 17, 19, 31, 61, 89, 107, 127>>

\* the while loop of div_diff_mod on (m, x, inv, den)
RECURSIVE InverseLoop(_, _, _, _)
InverseLoop(m, xx, inv, den) ==
    IF den > 1
    THEN LET inv1 == inv - (den \div m) * xx
             den1 == den % m
         IN  InverseLoop(den1, inv1, xx, m)
    ELSE inv

\* num / (num - b) mod p, the inverse by the extended Euclidean algorithm
div_diff_mod(num, b, pp) ==
    LET den == IF num < b THEN pp - (b - num) ELSE num - b
        inv == InverseLoop(pp, 0, 1, den)
        res == IF inv < 0 THEN inv + pp ELSE inv
    IN  (num * res) % pp

RECURSIVE ProductOver(_, _, _)
ProductOver(xs, xj, pp) ==
    IF xs = {} THEN 1
    ELSE LET xm == CHOOSE e \in xs : TRUE
         IN  div_diff_mod(xm, xj, pp) * ProductOver(xs \ {xm}, xj, pp)

RECURSIVE SumOver(_, _, _)
SumOver(xs, pts, pp) ==
    IF xs = {} THEN 0
    ELSE LET xj == CHOOSE e \in xs : TRUE
         IN  ((ProductOver(DOMAIN pts \ {xj}, xj, pp) * pts[xj]) % pp)
                 + SumOver(xs \ {xj}, pts, pp)

\* the root of the Lagrange polynomial through the points of the HashMap
lagrange_root(pts, pp) == SumOver(DOMAIN pts, pts, pp) % pp

\* k coefficients, the last one s and the others (cs, the samples of Uniform::new(1, p))
\* in [1, p); the loop `for _ in 1..k` runs k-1 times, and not at all for k = 0
CoeffSamples(kk, pp) == [1..(IF kk >= 1 THEN kk - 1 ELSE 0) -> 1..(pp - 1)]

\* a generator that pushes s first instead of last
compute_coeffs_secret_first(sval, cs) == <<sval>> \o cs

compute_coeffs(sval, cs) == cs \o <<sval>>

\* the fold (acc * x + c) % p over the coefficients
RECURSIVE FoldFrom(_, _, _, _, _)
FoldFrom(cs, at, pp, i, acc) ==
    IF i > Len(cs) THEN acc
    ELSE FoldFrom(cs, at, pp, i + 1, (acc * at + cs[i]) % pp)

\* an evaluator over the range 0..p-1, whose first point is at x = 0
get_evaluator_from_zero(cs, pp, at) == <<at - 1, FoldFrom(cs, at - 1, pp, 1, 0)>>

\* get_evaluator: the iterator (1..p).map(..); the point it yields at `at`
get_evaluator(cs, pp, at) == <<at, FoldFrom(cs, at, pp, 1, 0)>>

\* the range 1..p of get_evaluator starts at 1 and is exhausted at p
RangeStart == 1

(***************************************************************************)
(* The field engine applied to every pair of operands.                     *)
(***************************************************************************)
IdleSharks ==
    /\ constructed = FALSE /\ threshold = 0 /\ secret = <<>> /\ polys = <<>> /\ dealing = FALSE
    /\ evalx = 1 /\ last = NoValue /\ nexts = 0 /\ shares = <<>>
    /\ input = <<>> /\ result = NoValue

IdleWire == wire = <<>> /\ share = NoValue /\ decoded = NoValue /\ encoded = NoValue

IdlePrime ==
    /\ pmod = 0 /\ pk = 0 /\ ps = 0 /\ pcoeffs = <<>> /\ px = 1
    /\ points = <<>> /\ root = NoValue

IdleField == fa = 0 /\ fb = 0 /\ fout = NoValue

InitField ==
    /\ fa \in Bytes /\ fb \in Bytes /\ fout = NoValue
    /\ build = "gf256"
    /\ IdleSharks /\ IdleWire /\ IdlePrime

FieldAdd ==
    /\ fout' = [tag |-> "add", v |-> add(fa, fb)]
    /\ UNCHANGED <<fa, fb, build, sharksVars, wireVars, primeVars>>

FieldSub ==
    /\ fout' = [tag |-> "sub", v |-> sub(fa, fb)]
    /\ UNCHANGED <<fa, fb, build, sharksVars, wireVars, primeVars>>

FieldMul ==
    /\ fout' = [tag |-> "mul", v |-> mul(fa, fb)]
    /\ UNCHANGED <<fa, fb, build, sharksVars, wireVars, primeVars>>

FieldDiv ==
    /\ fout' = [tag |-> "div", v |-> div(fa, fb)]
    /\ UNCHANGED <<fa, fb, build, sharksVars, wireVars, primeVars>>

NextField == FieldAdd \/ FieldSub \/ FieldMul \/ FieldDiv

SpecField == InitField /\ [][NextField]_vars

(***************************************************************************)
(* The library as its tests and examples drive it (src/lib.rs): construct  *)
(* a Sharks, obtain a dealer, collect shares, recover.                     *)
(***************************************************************************)
SecretBytes == {0, 1, 254, 255}
Secrets == SeqsUpTo(SecretBytes, MaxSecretLen)
Seeds == 0..(NumSeeds - 1)

\* the tests of lib.rs: Sharks(255) on the secrets [1] and [1, 2, 3, 4], one seeded
\* generator, 254 or 255 shares taken
TestThreshold == 255
TestSecrets == {<<1>>, <<1, 2, 3, 4>>}
TestSeed == 0

Thresholds == (0..MaxThreshold) \cup {TestThreshold}
DealerInputs(t) ==
    IF t = TestThreshold THEN TestSecrets \X {TestSeed} ELSE Secrets \X Seeds
TakeLimit(t) == IF t = TestThreshold THEN LastX ELSE MaxTake
\* under the tests' threshold recover is called as the tests call it: on 254 or 255 shares
RecoverCalled == threshold = TestThreshold => Len(shares) >= LastX - 1
Min(a, b) == IF a <= b THEN a ELSE b

\* the sub-sequence of q at the positions of the set pos, in order
RECURSIVE Pick(_, _)
Pick(q, pos) ==
    IF pos = {} THEN <<>>
    ELSE LET i == CHOOSE e \in pos : \A o \in pos : e <= o
         IN  <<q[i]>> \o Pick(q, pos \ {i})

Init ==
    /\ build \in {"gf256", "prime"}
    /\ IdleField /\ IdleSharks /\ IdleWire /\ IdlePrime

\* pub struct Sharks(pub u8): the tuple struct is built from any u8
NewSharks(t) ==
    /\ build = "gf256"
    /\ ~constructed
    /\ constructed' = TRUE
    /\ threshold' = t
    /\ UNCHANGED <<secret, polys, dealing, evalx, last, nexts, shares, input, result>>
    /\ UNCHANGED <<build, fieldVars, wireVars, primeVars>>

\* Sharks::dealer_rng: one polynomial per secret byte, then the evaluator over them
DealerRng(sec, seed) ==
    /\ constructed
    /\ ~dealing
    /\ result = NoValue
    /\ secret' = sec
    /\ polys' = [i \in 1..Len(sec) |->
                    random_polynomial(sec[i], threshold, seed, (i - 1) * threshold)]
    /\ dealing' = TRUE
    /\ evalx' = FirstX
    /\ last' = NoValue
    /\ nexts' = 0
    /\ shares' = <<>>
    /\ UNCHANGED <<constructed, threshold, input, result>>
    /\ UNCHANGED <<build, fieldVars, wireVars, primeVars>>

\* one call of the dealer's next(): the share at the evaluator's position, or None once
\* the positions are exhausted; `keep` says whether the caller collects the share
IteratorNext(keep) ==
    /\ dealing
    /\ nexts' = nexts + 1
    /\ LET item == EvaluatorItem(polys, evalx)
       IN  /\ last' = item
           /\ shares' = IF keep /\ item # NoValue THEN Append(shares, item.share) ELSE shares
    /\ evalx' = EvaluatorAdvance(evalx)
    /\ UNCHANGED <<constructed, threshold, secret, polys, dealing, input, result>>
    /\ UNCHANGED <<build, fieldVars, wireVars, primeVars>>

\* dealer.take(n).collect(): one more share collected; the shares are collected before
\* recover is called on them
Take ==
    /\ Len(shares) < TakeLimit(threshold)
    /\ result = NoValue
    /\ IteratorNext(TRUE)

\* fuzz/fuzz_targets/recover.rs: an arbitrary threshold and arbitrary shares (any x,
\* repeated x, y of any length) go through Sharks(threshold).recover(&shares)
FuzzXs == {0, 1, 255}
FuzzYs == SeqsUpTo({0, 9}, 1)
FuzzShares == {Share(sx, sy) : sx \in FuzzXs, sy \in FuzzYs}

FuzzRecover(t, shs) ==
    /\ build = "gf256"
    /\ ~constructed
    /\ constructed' = TRUE
    /\ threshold' = t
    /\ input' = shs
    /\ result' = recover(t, shs)
    /\ UNCHANGED <<secret, polys, dealing, evalx, last, nexts, shares>>
    /\ UNCHANGED <<build, fieldVars, wireVars, primeVars>>

\* sharks.recover(&shares) on everything collected (test_insufficient_shares_err with
\* 254 shares, test_integration_works with 255)
RecoverAll ==
    /\ dealing
    /\ RecoverCalled
    /\ input' = shares
    /\ result' = recover(threshold, shares)
    /\ UNCHANGED <<constructed, threshold, secret, polys, dealing, evalx, last, nexts, shares>>
    /\ UNCHANGED <<build, fieldVars, wireVars, primeVars>>

\* sharks.recover on some of the collected shares, in the order collected
RecoverSome(pos) ==
    /\ dealing
    /\ input' = Pick(shares, pos)
    /\ result' = recover(threshold, Pick(shares, pos))
    /\ UNCHANGED <<constructed, threshold, secret, polys, dealing, evalx, last, nexts, shares>>
    /\ UNCHANGED <<build, fieldVars, wireVars, primeVars>>

\* test_duplicate_shares_err: shares[i] is overwritten by a copy of shares[j], and the
\* whole vector is handed to recover
RecoverDuplicated(i, j) ==
    /\ dealing
    /\ RecoverCalled
    /\ i # j
    /\ input' = [shares EXCEPT ![i] = shares[j]]
    /\ result' = recover(threshold, [shares EXCEPT ![i] = shares[j]])
    /\ UNCHANGED <<constructed, threshold, secret, polys, dealing, evalx, last, nexts, shares>>
    /\ UNCHANGED <<build, fieldVars, wireVars, primeVars>>

(***************************************************************************)
(* The prime-modulus revision as its tests drive it (src/math.rs).         *)
(***************************************************************************)
PrimeExponents == {EXPONENTS[1], EXPONENTS[2]}
Moduli == {2 ^ e - 1 : e \in PrimeExponents}

\* compute_coeffs(s, k, p)
ComputeCoeffs(pp, kk, sval, cs) ==
    /\ build = "prime"
    /\ pcoeffs = <<>>
    /\ pmod' = pp
    /\ pk' = kk
    /\ ps' = sval
    /\ pcoeffs' = compute_coeffs(sval, cs)
    /\ px' = RangeStart
    /\ points' = <<>>
    /\ root' = NoValue
    /\ UNCHANGED <<build, fieldVars, wireVars, sharksVars>>

\* one next() of get_evaluator(coeffs, p), collected into the HashMap of points
EvaluatorNext ==
    /\ pcoeffs # <<>>
    /\ px < pmod
    /\ points' = [at \in DOMAIN points \cup {get_evaluator(pcoeffs, pmod, px)[1]} |->
                     IF at = get_evaluator(pcoeffs, pmod, px)[1]
                     THEN get_evaluator(pcoeffs, pmod, px)[2]
                     ELSE points[at]]
    /\ px' = px + 1
    /\ UNCHANGED <<pmod, pk, ps, pcoeffs, root>>
    /\ UNCHANGED <<build, fieldVars, wireVars, sharksVars>>

\* lagrange_root(&points, p)
LagrangeRoot ==
    /\ pcoeffs # <<>>
    /\ root' = [tag |-> "Some", of |-> points, v |-> lagrange_root(points, pmod)]
    /\ UNCHANGED <<pmod, pk, ps, pcoeffs, px, points>>
    /\ UNCHANGED <<build, fieldVars, wireVars, sharksVars>>

Next ==
    \/ \E t \in Thresholds : NewSharks(t)
    \/ constructed /\ ~dealing /\ result = NoValue /\ \E in \in DealerInputs(threshold) : DealerRng(in[1], in[2])
    \/ Take
    \/ build = "gf256" /\ ~constructed /\ \E t \in Thresholds, shs \in SeqsUpTo(FuzzShares, MaxInput) :
          FuzzRecover(t, shs)
    \/ RecoverAll
    \/ \E pos \in SUBSET (1..(IF Len(shares) <= MaxTake THEN Len(shares) ELSE 0)) :
          RecoverSome(pos)
    \/ \E i \in 1..Min(Len(shares), MaxTake) :
          \E j \in 1..(IF threshold = TestThreshold THEN 1 ELSE Min(Len(shares), MaxTake)) :
             RecoverDuplicated(i, j)
    \/ build = "prime" /\ pcoeffs = <<>> /\ \E pp \in Moduli, kk \in 0..MaxThreshold :
          \E sval \in 0..(pp - 1), cs \in CoeffSamples(kk, pp) : ComputeCoeffs(pp, kk, sval, cs)
    \/ EvaluatorNext
    \/ LagrangeRoot

Spec == Init /\ [][Next]_vars

(***************************************************************************)
(* Claims checked under Spec.                                              *)
(***************************************************************************)
DistinctX(shs) == Cardinality(Keys(shs)) = Len(shs)

\* C1: round trip. In a dealer run with threshold K in 1..255 and secret S, recover on
\* any collection of at least K of the emitted shares, all with distinct x, returns Ok
\* with exactly S; and in the prime-modulus revision the Lagrange root through at least
\* k points of the evaluator is the secret s.
C1_RoundTrip ==
    /\ (/\ result # NoValue
        /\ dealing
        /\ Range(input) \subseteq Range(shares)
        /\ threshold \in 1..255
        /\ Len(input) >= threshold
        /\ DistinctX(input))
          => result = [tag |-> "Ok", secret |-> secret]
    /\ (/\ root # NoValue
        /\ pk >= 1
        /\ Cardinality(DOMAIN root.of) >= pk)
          => root.v = ps

\* C1 witness: a two-byte secret under threshold 2 has been recovered from three shares,
\* and one under threshold 3 from exactly three.
C1_Witness ==
    /\ result.tag = "Ok"
    /\ Len(secret) = 2 /\ secret[1] # secret[2]
    /\ result.secret = secret
    /\ threshold = 2 /\ Len(input) = 3

\* the monomial form of a polynomial's value: the sum of c_i * x^(K-i)
FieldPower(b, e) == IF b = 0 THEN (IF e = 0 THEN 1 ELSE 0) ELSE EXP[(LOG[b] * e) % 255]

RECURSIVE MonomialSum(_, _, _, _)
MonomialSum(poly, at, lo, hi) ==
    IF lo > hi THEN 0
    ELSE IF lo = hi THEN mul(poly[lo], FieldPower(at, Len(poly) - lo))
    ELSE LET mid == (lo + hi) \div 2
         IN  add(MonomialSum(poly, at, lo, mid), MonomialSum(poly, at, mid + 1, hi))

RECURSIVE MonomialSumMod(_, _, _, _)
MonomialSumMod(cs, at, pp, i) ==
    IF i > Len(cs) THEN 0
    ELSE (cs[i] * (at ^ (Len(cs) - i)) + MonomialSumMod(cs, at, pp, i + 1)) % pp

\* C10: polynomial shape. For K >= 1 the generator returns exactly K coefficients, the
\* last one the secret value and the K-1 others nonzero (in 1..255, in [1, p) for the
\* prime modulus), one polynomial per secret byte; every emitted share has len(y) equal
\* to the secret's length and y[i] the value of polynomial i at the share's x.
C10_PolynomialShape ==
    /\ (dealing /\ threshold >= 1) =>
          /\ Len(polys) = Len(secret)
          /\ \A i \in 1..Len(polys) :
                /\ Len(polys[i]) = threshold
                /\ polys[i][threshold] = secret[i]
                /\ \A j \in 1..(threshold - 1) : polys[i][j] \in 1..255
          /\ \A n \in 1..Len(shares) : Len(shares[n].y) = Len(secret)
          /\ last # NoValue =>
                /\ shares[Len(shares)] = last.share
                /\ \A i \in 1..Len(secret) :
                      last.share.y[i] = MonomialSum(polys[i], last.share.x, 1, Len(polys[i]))
    /\ (pcoeffs # <<>> /\ pk >= 1) =>
          /\ Len(pcoeffs) = pk
          /\ pcoeffs[pk] = ps
          /\ \A j \in 1..(pk - 1) : pcoeffs[j] \in 1..(pmod - 1)
          /\ \A at \in DOMAIN points : points[at] = MonomialSumMod(pcoeffs, at, pmod, 1)

\* C10 witness: three shares of a two-byte secret under threshold 3 have been emitted.
C10_Witness ==
    /\ dealing /\ threshold = 3
    /\ Len(secret) = 2 /\ Len(shares) = 3
    /\ shares[3].y # shares[2].y

\* C3: secrecy. For K >= 2, any at most K-1 of the emitted shares are consistent with
\* every candidate secret byte: for each byte position and each v in 0..255 some choice
\* of the K-1 non-constant coefficients in 1..255 makes the polynomial with constant
\* term v pass through the observed shares.
C3_Secrecy ==
    (dealing /\ threshold \in 2..MaxThreshold) =>
        \A obs \in SUBSET Range(shares) :
            Cardinality(obs) <= threshold - 1 =>
                \A b \in 1..Len(secret) : \A v \in Bytes :
                    \E cs \in [1..(threshold - 1) -> 1..255] :
                        \A sh \in obs : Horner(cs \o <<v>>, sh.x) = sh.y[b]

\* C7: a Sharks exists only with threshold in 1..255, so neither the dealer nor recover
\* runs with threshold 0.
C7_ThresholdValidated ==
    /\ constructed => threshold \in 1..255
    /\ (dealing \/ result # NoValue) => threshold # 0

\* C2: insufficiency. Whenever the shares handed to recover hold fewer than K distinct
\* x-coordinates, recover returns the error and no secret, also when the collection has
\* K or more shares of which some repeat an x.
C2_Insufficiency ==
    (result # NoValue /\ Cardinality(Keys(input)) < threshold)
        => result = NotEnoughShares

\* C2 witness: recover has refused a collection of at least K shares with a repeated x.
C2_Witness ==
    /\ result = NotEnoughShares
    /\ threshold >= 2
    /\ Len(input) >= threshold
    /\ Cardinality(Keys(input)) < threshold

\* C8: recover always finishes with a byte sequence or an explicit error value, for every
\* threshold and every collection of shares, and no basis divides by zero.
C8_RecoverNeverAborts ==
    result # NoValue => result.tag \in {"Ok", "Err"}

(***************************************************************************)
(* fuzz/fuzz_targets/generate_shares.rs: an arbitrary threshold, secret and *)
(* n_shares go through Sharks(threshold), dealer(&secret) and              *)
(* take(n_shares).collect(); n_shares may exceed what the dealer yields.   *)
(***************************************************************************)
FuzzSecrets == SeqsUpTo({0, 255}, MaxSecretLen)
FuzzDealerInputs(t) ==
    IF t = TestThreshold THEN TestSecrets \X {TestSeed} ELSE FuzzSecrets \X Seeds

InitDealer ==
    /\ build \in {"gf256", "prime"}
    /\ IdleField /\ IdleSharks /\ IdleWire /\ IdlePrime

\* one more next() of take(n_shares).collect()
Collect ==
    /\ nexts < LastX + MaxExtraNexts
    /\ IteratorNext(TRUE)

NextDealer ==
    \/ \E t \in Thresholds : NewSharks(t)
    \/ constructed /\ ~dealing /\ result = NoValue /\ \E in \in FuzzDealerInputs(threshold) : DealerRng(in[1], in[2])
    \/ Collect
    \/ build = "prime" /\ pcoeffs = <<>> /\ \E pp \in Moduli, kk \in 0..MaxThreshold :
          \E sval \in 0..(pp - 1), cs \in CoeffSamples(kk, pp) : ComputeCoeffs(pp, kk, sval, cs)
    \/ EvaluatorNext

SpecDealer == InitDealer /\ [][NextDealer]_vars

WireXs == {0, 5, 255}
WireYs == SeqsUpTo({9, 10}, MaxWireLen - 1)
WireShares == {Share(sx, sy) : sx \in WireXs, sy \in WireYs}
WireBytes == {<<>>} \cup {<<b>> \o bs : b \in WireXs, bs \in WireYs}

InitWire ==
    /\ build = "gf256"
    /\ IdleField /\ IdleSharks /\ IdleWire /\ IdlePrime

\* Vec<u8>::from(share) of a share
Encode(sh) ==
    /\ share' = [tag |-> "Some", share |-> sh]
    /\ encoded' = [tag |-> "Some", bytes |-> ShareToBytes(sh)]
    /\ UNCHANGED <<wire, decoded>>
    /\ UNCHANGED <<build, fieldVars, sharksVars, primeVars>>

\* Share::from(bytes) of a byte sequence received
Decode(bs) ==
    /\ wire' = bs
    /\ decoded' = ShareFromBytes(bs)
    /\ UNCHANGED <<share, encoded>>
    /\ UNCHANGED <<build, fieldVars, sharksVars, primeVars>>

\* Share::from of the bytes last produced by the encoder
DecodeEncoded ==
    /\ encoded # NoValue
    /\ Decode(encoded.bytes)

\* Vec<u8>::from of the share last produced by the decoder
EncodeDecoded ==
    /\ decoded.tag = "Share"
    /\ Encode(decoded.share)

NextWire ==
    \/ \E sh \in WireShares : Encode(sh)
    \/ \E bs \in WireBytes : Decode(bs)
    \/ DecodeEncoded
    \/ EncodeDecoded

SpecWire == InitWire /\ [][NextWire]_vars

\* C5: wire round trip. The encoding of a share is its x followed by its y bytes in
\* order (length len(y)+1); decoding the encoding gives back the same x and y; decoding a
\* non-empty byte sequence and encoding the result gives back the same bytes.
C5_WireRoundTrip ==
    /\ encoded # NoValue =>
          /\ Len(encoded.bytes) = Len(share.share.y) + 1
          /\ encoded.bytes[1] = share.share.x
          /\ \A i \in 1..Len(share.share.y) : encoded.bytes[i + 1] = share.share.y[i]
    /\ (encoded # NoValue /\ decoded # NoValue /\ wire = encoded.bytes) =>
          (decoded.tag = "Share" /\ decoded.share = share.share)
    /\ (decoded.tag = "Share" /\ encoded # NoValue /\ share.share = decoded.share) =>
          encoded.bytes = wire

\* C5 witness: Share{x=5, y=[9,10]} has been encoded to [5,9,10] and decoded back.
C5_Witness ==
    /\ share = [tag |-> "Some", share |-> Share(5, <<9, 10>>)]
    /\ encoded = [tag |-> "Some", bytes |-> <<5, 9, 10>>]
    /\ wire = <<5, 9, 10>>
    /\ decoded = [tag |-> "Share", share |-> Share(5, <<9, 10>>)]

\* C6: decoding a zero-length byte sequence yields a DecodeError value; it does not abort
\* and produces no Share.
C6_EmptyDecodeError ==
    (decoded # NoValue /\ wire = <<>>) => decoded.tag = "DecodeError"

\* C9: the field laws: add(add(a,b),b) = a; mul(a,1) = a; mul(a,b) = 0 exactly when
\* a = 0 or b = 0; div(a,a) = 1 for a # 0; div(mul(a,b),b) = a for b # 0; div(a,0) is
\* the DivisionByZero failure; every other result is a field element.
C9_FieldLaws ==
    /\ fout.tag = "add" =>
          /\ fout.v \in Bytes
          /\ add(fout.v, fb) = fa
    /\ fout.tag = "sub" => fout.v = add(fa, fb)
    /\ fout.tag = "mul" =>
          /\ fout.v \in Bytes
          /\ (fout.v = 0) <=> (fa = 0 \/ fb = 0)
          /\ fb = 1 => fout.v = fa
          /\ fb # 0 => div(fout.v, fb) = fa
    /\ fout = NoValue =>
          /\ EXP[0] = 1
          /\ fa < 254 => EXP[fa + 1] = TimesGenerator(EXP[fa])
          /\ fa = 254 => TimesGenerator(EXP[fa]) = 1
          /\ fa <= 254 => LOG[EXP[fa]] = fa
          /\ fa # 0 => EXP[LOG[fa]] = fa
    /\ fout.tag = "div" =>
          /\ fb = 0 => fout.v = DivisionByZero
          /\ fb # 0 => fout.v \in Bytes
          /\ (fa = fb /\ fa # 0) => fout.v = 1
          /\ fb # 0 => mul(fout.v, fb) = fa

\* C9 witness: the product of two nonzero elements whose exponents add up past the end
\* of the exponent table has been computed.
C9_Witness ==
    /\ fout.tag = "mul"
    /\ fa = 83 /\ fb = 202 /\ fout.v = 1
    /\ LOG[fa] + LOG[fb] >= 255

====
